---- MODULE Spec2Model ----
(***************************************************************************)
(* Session controller of rn-firebase-auth-starter: AuthProvider            *)
(* (src/contexts/AuthContext.tsx) over the Secure Credential Store         *)
(* (expo-secure-store) and the Remote Auth Client                          *)
(* (src/services/authService.ts).                                          *)
(*                                                                         *)
(* Every async function is a sequence of steps, one per await; ops[p] is   *)
(* the position and the locals of the invocation running in slot p.        *)
(* The Store and the remote service are the environment: every Store call  *)
(* either succeeds or is rejected, every request is answered by a body or  *)
(* by a raw transport error.                                               *)
(***************************************************************************)
EXTENDS Integers, FiniteSets, Sequences, TLC

\* ---------------------------------------------------------------- bounds
NumUsers == 2
NumTokens == 2

Users == 1..NumUsers
Tokens == 1..NumTokens

\* ------------------------------------------------------------- constants
TOKEN_KEY == "auth_token"
REFRESH_TOKEN_KEY == "refresh_token"
USER_KEY == "user_data"
Keys == {TOKEN_KEY, REFRESH_TOKEN_KEY, USER_KEY}

\* null / undefined / absent key / missing field
Null == 0
\* error: string | null
NoError == "null"

\* JSON.stringify of a User and JSON.parse of a stored string.  A stored
\* string is a number: JsonBase + uid for the serialization of a user,
\* JsonBase itself for a string that is not JSON.
JsonBase == 10
Corrupt == JsonBase
stringify(u) == JsonBase + u
Parses(s) == s > JsonBase
parse(s) == s - JsonBase

StoreError == "SecureStore call rejected"
InvalidAuthData == "Invalid authentication data received"
FailedToStore == "Failed to store authentication data"
NoRefreshToken == "No refresh token available"
LoginFailed == "Login failed"
RegistrationFailed == "Registration failed"
ResetFailed == "Password reset failed"
RefreshFailed == "Token refresh failed"
NetworkMsg == "Network error. Please check your connection."
TimeoutMsg == "Request timeout. Please try again."
GenericMsg == "An unexpected error occurred. Please try again."
ServerMsg == "server message"
ServerCode == "server error code"

\* ------------------------------------------------- Remote Auth Client
\* A raw axios error: the response body's message and error fields ("" when
\* missing), the error code and the HTTP status (0: no response).
RawErrors ==
  [respMessage : {"", ServerMsg}, respError : {"", ServerCode},
   code : {"ERR_BAD_RESPONSE"}, status : {401, 500}]
  \cup
  [respMessage : {""}, respError : {""},
   code : {"NETWORK_ERROR", "ECONNABORTED", "ERR_OTHER"}, status : {0}]

formatError(e) ==
  IF e.respMessage # "" THEN e.respMessage
  ELSE IF e.respError # "" THEN e.respError
  ELSE IF e.code = "NETWORK_ERROR" THEN NetworkMsg
  ELSE IF e.code = "ECONNABORTED" THEN TimeoutMsg
  ELSE GenericMsg

\* new Error(m) seen as an argument of formatError: no response, no code.
ErrorObject(m) == [respMessage |-> "", respError |-> "", code |-> "", status |-> 0]

\* The response interceptor rejects with formatError(error); the catch of
\* the service method formats that Error once more.
responseInterceptor(e) == formatError(e)
serviceError(e) == formatError(ErrorObject(responseInterceptor(e)))

\* AuthResponse.data: present = FALSE is a body without data.
NoData == [present |-> FALSE, user |-> Null, token |-> Null, refreshToken |-> Null]
AuthData ==
  {NoData} \cup
  [present : {TRUE}, user : Users, token : Tokens \cup {Null}, refreshToken : Tokens]
\* AuthResponse / ApiResponse bodies of a 2xx answer.
AuthResponses == [success : BOOLEAN, data : AuthData, message : {"", ServerMsg}]
ApiResponses == [success : BOOLEAN, message : {"", ServerMsg}]

\* ------------------------------------------------------------- state
VARIABLES
  user,       \* useState<User | null>
  isLoading,  \* useState(true)
  error,      \* useState<string | null>
  store,      \* SecureStore: key -> stored string, Null when absent
  ops,        \* slot -> the invocation in the slot
  mounted,    \* the mount effect has run
  recon,      \* the last two startup reconciliations
  guard,      \* AuthGuard: the dependencies its effect last ran with and
              \* the redirect that run issued
  route,      \* the route the router shows
  isSubmitting \* useState(false) of the form screen that is mounted

vars ==
  <<user, isLoading, error, store, ops, mounted, recon, guard, route, isSubmitting>>
nav == <<guard, route, isSubmitting>>

Procs == {1, 2}
SerialProcs == {1}

isAuthenticated == user # Null

IdleOp ==
  [kind |-> "none", pc |-> "idle", ret |-> "none", token |-> Null,
   data |-> NoData, thrown |-> NoError, outcome |-> "none", reqs |-> 0,
   auth |-> Null, tokenRead |-> "none", afterPurge |-> "no", tokenless |-> FALSE,
   calls |-> {}, faults |-> {}, remote |-> "", preUser |-> Null,
   preStore |-> [k \in Keys |-> Null]]

NewOp(kind, pc) ==
  [IdleOp EXCEPT !.kind = kind, !.pc = pc, !.preUser = user, !.preStore = store]

\* The invocation o starts in the slot that held prev: afterPurge tells
\* whether prev called clearAuthData and whether the Store accepted all
\* its deletes.
Following(prev, o) ==
  [o EXCEPT !.afterPurge =
     IF prev.pc = "done" /\ "del" \in prev.calls
     THEN IF "del" \in prev.faults THEN "rejected" ELSE "accepted"
     ELSE "no"]

Settled(p) == ops[p].pc \in {"idle", "done"}
InFlight(p) == ~Settled(p)

NoAnswer == [kind |-> "none", user |-> Null]
NoRun == [user |-> Null, answer |-> NoAnswer, calls |-> {}, faults |-> {}]
NoRecon == [consecutive |-> FALSE, prev |-> NoRun, answer |-> NoAnswer]

StoredUsers == {Null, Corrupt} \cup {stringify(u) : u \in Users}

\* The AuthGuard component before its effect has run: no dependencies
\* seen, no redirect issued.
GuardInit == [ran |-> FALSE, loading |-> TRUE, auth |-> FALSE, redirect |-> "none"]

Init ==
  /\ user = Null
  /\ isLoading = TRUE
  /\ error = NoError
  /\ store \in [Keys -> Tokens \cup StoredUsers]
  /\ store[TOKEN_KEY] \in {Null, 1}
  /\ store[REFRESH_TOKEN_KEY] \in {Null, 1}
  /\ store[USER_KEY] \in {Null, Corrupt, stringify(1)}
  /\ ops = [p \in Procs |-> IdleOp]
  /\ mounted = FALSE
  /\ recon = NoRecon
  /\ guard = GuardInit
  /\ route = "index"
  /\ isSubmitting = FALSE

\* ------------------------------------------------------ helper updates
\* The invocation o has made a Store call of the kind ("get", "set",
\* "del"), which succeeded (Called) or was rejected (Rejected).
Called(o, kind) == [o EXCEPT !.calls = @ \cup {kind}]
Rejected(o, kind) == [o EXCEPT !.calls = @ \cup {kind}, !.faults = @ \cup {kind}]

\* The invocation o settles: resolved, or rejected with thrown.
Settle(o, outcome, thrown) ==
  [o EXCEPT !.pc = "done", !.ret = "none", !.token = Null,
            !.tokenRead = "none", !.afterPurge = "no",
            !.outcome = outcome, !.thrown = thrown]

\* The invocation o calls clearAuthData and continues at ret.
CallClear(o, ret, thrown) ==
  [o EXCEPT !.pc = "clr1", !.ret = ret, !.thrown = thrown]

\* ------------------------------------------------ startup reconciliation
\* The app is relaunched: the provider's state is constructed anew, the
\* Store survives.
Restart ==
  /\ mounted
  /\ \A p \in Procs : Settled(p)
  /\ user' = Null
  /\ isLoading' = TRUE
  /\ error' = NoError
  /\ mounted' = FALSE
  /\ ops' = [p \in Procs |-> IdleOp]
  /\ recon' =
       IF ops[1].kind = "checkAuthStatus" /\ ops[1].pc = "done"
       THEN [consecutive |-> TRUE,
             prev |-> [user |-> user, answer |-> recon.answer,
                       calls |-> ops[1].calls, faults |-> ops[1].faults],
             answer |-> NoAnswer]
       ELSE NoRecon
  /\ guard' = GuardInit
  /\ route' = "index"
  /\ isSubmitting' = FALSE
  /\ UNCHANGED store

\* useEffect(() => { checkAuthStatus(); }, []) up to the first await.
checkAuthStatus(p) ==
  /\ ~mounted
  /\ Settled(p)
  /\ mounted' = TRUE
  /\ isLoading' = TRUE
  /\ ops' = [ops EXCEPT ![p] = Following(@, NewOp("checkAuthStatus", "cas_getToken"))]
  /\ UNCHANGED <<user, error, store, recon>>
  /\ UNCHANGED nav

\* const token = await SecureStore.getItemAsync(TOKEN_KEY)
casGetToken(p) ==
  /\ ops[p].kind = "checkAuthStatus"
  /\ ops[p].pc = "cas_getToken"
  /\ \/ ops' = [ops EXCEPT ![p] =
                  [Called(@, "get") EXCEPT !.token = store[TOKEN_KEY], !.pc = "cas_getUser"]]
     \/ ops' = [ops EXCEPT ![p] = CallClear(Rejected(@, "get"), "finally", StoreError)]
  /\ UNCHANGED <<user, isLoading, error, store, mounted, recon>>
  /\ UNCHANGED nav

\* casGetUser without the guard "if (token && userData)": the token is
\* verified whatever was read.
casGetUser_unguarded(p) ==
  /\ ops[p].kind = "checkAuthStatus"
  /\ ops[p].pc = "cas_getUser"
  /\ \/ LET userData == store[USER_KEY] IN
        /\ user' = IF Parses(userData) THEN parse(userData) ELSE Null
        /\ ops' = [ops EXCEPT ![p] = [Called(@, "get") EXCEPT !.pc = "send"]]
        /\ UNCHANGED isLoading
     \/ /\ ops' = [ops EXCEPT ![p] = CallClear(Rejected(@, "get"), "finally", StoreError)]
        /\ UNCHANGED <<user, isLoading>>
  /\ UNCHANGED <<error, store, mounted, recon>>
  /\ UNCHANGED nav

\* const userData = await SecureStore.getItemAsync(USER_KEY); the parse,
\* the optimistic setUser and the call of getCurrentUser.
casGetUser(p) ==
  /\ ops[p].kind = "checkAuthStatus"
  /\ ops[p].pc = "cas_getUser"
  /\ \/ LET userData == store[USER_KEY] IN
        IF ops[p].token # Null /\ userData # Null
        THEN IF Parses(userData)
             THEN /\ user' = parse(userData)
                  /\ ops' = [ops EXCEPT ![p] = [Called(@, "get") EXCEPT !.pc = "send"]]
                  /\ UNCHANGED isLoading
             ELSE /\ ops' = [ops EXCEPT ![p] =
                               CallClear(Called(@, "get"), "finally", "JSON parse error")]
                  /\ UNCHANGED <<user, isLoading>>
        ELSE /\ isLoading' = FALSE
             /\ ops' = [ops EXCEPT ![p] = Settle(Called(@, "get"), "resolved", NoError)]
             /\ UNCHANGED user
     \/ /\ ops' = [ops EXCEPT ![p] = CallClear(Rejected(@, "get"), "finally", StoreError)]
        /\ UNCHANGED <<user, isLoading>>
  /\ UNCHANGED <<error, store, mounted, recon>>
  /\ UNCHANGED nav

\* getStoredToken: the stored token, null when the read is rejected.
getStoredToken ==
  {[token |-> store[TOKEN_KEY], read |-> "ok"], [token |-> Null, read |-> "rejected"]}

\* Request interceptor attaching no Authorization header at all.
requestInterceptor_noHeader(p) ==
  /\ ops[p].pc = "send"
  /\ \E t \in getStoredToken :
       ops' = [ops EXCEPT ![p].auth = Null, ![p].tokenRead = t.read,
                          ![p].afterPurge = "no",
                          ![p].reqs = @ + 1, ![p].pc = "recv"]
  /\ UNCHANGED <<user, isLoading, error, store, mounted, recon>>
  /\ UNCHANGED nav

\* Request interceptor: the request leaves with the header it was given.
requestInterceptor(p) ==
  /\ ops[p].pc = "send"
  /\ \E t \in getStoredToken :
       ops' = [ops EXCEPT ![p].auth = t.token, ![p].tokenRead = t.read,
                          ![p].afterPurge = "no",
                          ![p].reqs = @ + 1, ![p].pc = "recv"]
  /\ UNCHANGED <<user, isLoading, error, store, mounted, recon>>
  /\ UNCHANGED nav

\* Response interceptor on a 401 answer: await this.handleTokenExpiration()
\* purging the session.
handleTokenExpiration_purges(p) ==
  /\ ops[p].pc = "recv"
  /\ ops' = [ops EXCEPT ![p].pc = "expired"]
  /\ user' = Null
  /\ store' = [k \in Keys |-> Null]
  /\ UNCHANGED <<isLoading, error, mounted, recon>>
  /\ UNCHANGED nav

\* Response interceptor on a 401 answer: await this.handleTokenExpiration(),
\* which logs a warning; the rejection follows.
handleTokenExpiration(p) ==
  /\ ops[p].pc = "recv"
  /\ ops' = [ops EXCEPT ![p].pc = "expired"]
  /\ UNCHANGED <<user, isLoading, error, store, mounted, recon>>
  /\ UNCHANGED nav

\* The request of the invocation in slot p is answered: with a 2xx body or
\* a failure other than 401 while it is pending, with a 401 failure once
\* handleTokenExpiration has run.
Answered(p) == ops[p].pc \in {"recv", "expired"}
Responses(p, bodies) == IF ops[p].pc = "recv" THEN bodies ELSE {}
Failures(p) == {e \in RawErrors : (e.status = 401) <=> (ops[p].pc = "expired")}

\* What /auth/me can answer in response.data.data.
MeData == {d \in AuthData : d.present => d.token = 1 /\ d.refreshToken = 1}

\* casRecv treating an answer without data as a failed validation.
casRecv_dropsUnvalidated(p) ==
  /\ ops[p].kind = "checkAuthStatus"
  /\ Answered(p)
  /\ \/ \E d \in Responses(p, MeData) :
          IF d.present
          THEN /\ user' = d.user
               /\ ops' = [ops EXCEPT ![p].data = d, ![p].pc = "cas_setUser"]
               /\ recon' = [recon EXCEPT !.answer = [kind |-> "user", user |-> d.user]]
               /\ UNCHANGED isLoading
          ELSE /\ isLoading' = FALSE
               /\ user' = Null
               /\ ops' = [ops EXCEPT ![p] = Settle(@, "resolved", NoError)]
               /\ recon' = [recon EXCEPT !.answer = [kind |-> "nodata", user |-> Null]]
     \/ \E e \in Failures(p) :
          /\ ops' = [ops EXCEPT ![p] = CallClear(@, "finally", serviceError(e))]
          /\ recon' = [recon EXCEPT !.answer = [kind |-> "fail", user |-> Null]]
          /\ UNCHANGED <<user, isLoading>>
  /\ UNCHANGED <<error, store, mounted>>
  /\ UNCHANGED nav

\* const currentUserData = await authService.getCurrentUser()
casRecv(p) ==
  /\ ops[p].kind = "checkAuthStatus"
  /\ Answered(p)
  /\ \/ \E d \in Responses(p, MeData) :
          IF d.present
          THEN /\ user' = d.user
               /\ ops' = [ops EXCEPT ![p].data = d, ![p].pc = "cas_setUser"]
               /\ recon' = [recon EXCEPT !.answer = [kind |-> "user", user |-> d.user]]
               /\ UNCHANGED isLoading
          ELSE /\ isLoading' = FALSE
               /\ ops' = [ops EXCEPT ![p] = Settle(@, "resolved", NoError)]
               /\ recon' = [recon EXCEPT !.answer = [kind |-> "nodata", user |-> Null]]
               /\ UNCHANGED user
     \/ \E e \in Failures(p) :
          /\ ops' = [ops EXCEPT ![p] = CallClear(@, "finally", serviceError(e))]
          /\ recon' = [recon EXCEPT !.answer = [kind |-> "fail", user |-> Null]]
          /\ UNCHANGED <<user, isLoading>>
  /\ UNCHANGED <<error, store, mounted>>
  /\ UNCHANGED nav

\* casSetUser persisting the user parsed from the cache instead of the
\* fetched one.
casSetUser_persistsCached(p) ==
  /\ ops[p].kind = "checkAuthStatus"
  /\ ops[p].pc = "cas_setUser"
  /\ \/ /\ store' = [store EXCEPT ![USER_KEY] = stringify(parse(ops[p].preStore[USER_KEY]))]
        /\ isLoading' = FALSE
        /\ ops' = [ops EXCEPT ![p] = Settle(Called(@, "set"), "resolved", NoError)]
     \/ /\ ops' = [ops EXCEPT ![p] = CallClear(Rejected(@, "set"), "finally", StoreError)]
        /\ UNCHANGED <<store, isLoading>>
  /\ UNCHANGED <<user, error, mounted, recon>>
  /\ UNCHANGED nav

\* await SecureStore.setItemAsync(USER_KEY, JSON.stringify(currentUserData.user))
casSetUser(p) ==
  /\ ops[p].kind = "checkAuthStatus"
  /\ ops[p].pc = "cas_setUser"
  /\ \/ /\ store' = [store EXCEPT ![USER_KEY] = stringify(ops[p].data.user)]
        /\ isLoading' = FALSE
        /\ ops' = [ops EXCEPT ![p] = Settle(Called(@, "set"), "resolved", NoError)]
     \/ /\ ops' = [ops EXCEPT ![p] = CallClear(Rejected(@, "set"), "finally", StoreError)]
        /\ UNCHANGED <<store, isLoading>>
  /\ UNCHANGED <<user, error, mounted, recon>>
  /\ UNCHANGED nav

\* --------------------------------------------------------- clearAuthData
\* ClearKey deleting the refresh token twice and the user data never.
ClearKey_skipsUser(pc) ==
  IF pc = "clr1" THEN TOKEN_KEY ELSE REFRESH_TOKEN_KEY
ClearKey(pc) ==
  IF pc = "clr1" THEN TOKEN_KEY ELSE IF pc = "clr2" THEN REFRESH_TOKEN_KEY ELSE USER_KEY
ClearNext(pc) == IF pc = "clr1" THEN "clr2" ELSE "clr3"

\* clearAuthData has returned to its caller, the invocation o of slot p,
\* with user u and error e set: the finally of checkAuthStatus and logout,
\* or the rest of the catch of refreshToken.
AfterClear(p, o, u, e) ==
  IF o.ret = "finally"
  THEN /\ user' = u
       /\ error' = e
       /\ isLoading' = FALSE
       /\ ops' = [ops EXCEPT ![p] = Settle(o, "resolved", NoError)]
  ELSE /\ user' = u
       /\ error' = o.thrown
       /\ UNCHANGED isLoading
       /\ ops' = [ops EXCEPT ![p] = Settle(o, "rejected", o.thrown)]

\* One deleteItemAsync of clearAuthData; after the third, setUser(null) and
\* setError(null); a rejected delete is caught and logged.
clearAuthData(p) ==
  /\ ops[p].pc \in {"clr1", "clr2", "clr3"}
  /\ \/ /\ store' = [store EXCEPT ![ClearKey(ops[p].pc)] = Null]
        /\ IF ops[p].pc = "clr3"
           THEN AfterClear(p, Called(ops[p], "del"), Null, NoError)
           ELSE /\ ops' = [ops EXCEPT ![p] =
                             [Called(@, "del") EXCEPT !.pc = ClearNext(ops[p].pc)]]
                /\ UNCHANGED <<user, error, isLoading>>
     \/ /\ AfterClear(p, Rejected(ops[p], "del"), user, error)
        /\ UNCHANGED store
  /\ UNCHANGED <<mounted, recon>>
  /\ UNCHANGED nav

\* --------------------------------------------------------- storeAuthData
StoreKey(pc) ==
  IF pc = "sto1" THEN TOKEN_KEY ELSE IF pc = "sto2" THEN REFRESH_TOKEN_KEY ELSE USER_KEY
StoreNext(pc) == IF pc = "sto1" THEN "sto2" ELSE "sto3"
\* StoreValue writing the access token under the refresh-token key too.
StoreValue_tokenTwice(pc, d) ==
  IF pc = "sto1" THEN d.token
  ELSE IF pc = "sto2" THEN d.token
  ELSE stringify(d.user)
StoreValue(pc, d) ==
  IF pc = "sto1" THEN d.token
  ELSE IF pc = "sto2" THEN d.refreshToken
  ELSE stringify(d.user)

\* Catch recording the generic message instead of the one it rethrows.
Catch_genericError(p, o, m) ==
  IF o.kind = "refreshToken"
  THEN /\ ops' = [ops EXCEPT ![p] = CallClear(o, "catch", m)]
       /\ UNCHANGED <<user, error, isLoading>>
  ELSE /\ error' = GenericMsg
       /\ isLoading' = FALSE
       /\ ops' = [ops EXCEPT ![p] = Settle(o, "rejected", m)]
       /\ UNCHANGED user

\* An error with message m reaches the catch of the invocation o of slot
\* p: login, register and resetPassword record it, rethrow and release
\* the loading flag; refreshToken first calls clearAuthData.
Catch(p, o, m) ==
  IF o.kind = "refreshToken"
  THEN /\ ops' = [ops EXCEPT ![p] = CallClear(o, "catch", m)]
       /\ UNCHANGED <<user, error, isLoading>>
  ELSE /\ error' = m
       /\ isLoading' = FALSE
       /\ ops' = [ops EXCEPT ![p] = Settle(o, "rejected", m)]
       /\ UNCHANGED user

\* The request of the invocation in slot p fails with the raw error e: the
\* response interceptor rejects with an Error whose message is remembered
\* in remote, the service method formats that Error again and the result
\* reaches the catch of the operation.
RemoteFailure(p, e) ==
  Catch(p, [ops[p] EXCEPT !.remote = responseInterceptor(e)], serviceError(e))

\* AfterStore without the finally of login and register.
AfterStore_noFinally(p, o) ==
  /\ UNCHANGED isLoading
  /\ ops' = [ops EXCEPT ![p] = Settle(o, "resolved", NoError)]

\* storeAuthData has returned: the finally of login and register; the
\* end of refreshToken, which has no finally.
AfterStore(p, o) ==
  /\ isLoading' = IF o.kind = "refreshToken" THEN isLoading ELSE FALSE
  /\ ops' = [ops EXCEPT ![p] = Settle(o, "resolved", NoError)]

\* storeAuthData calling setUser(data.user) before its writes.
storeAuthData_userFirst(p) ==
  /\ ops[p].pc \in {"sto1", "sto2", "sto3"}
  /\ \/ /\ store' = [store EXCEPT ![StoreKey(ops[p].pc)] = StoreValue(ops[p].pc, ops[p].data)]
        /\ user' = ops[p].data.user
        /\ IF ops[p].pc = "sto3"
           THEN /\ error' = NoError
                /\ AfterStore(p, Called(ops[p], "set"))
           ELSE /\ ops' = [ops EXCEPT ![p] =
                             [Called(@, "set") EXCEPT !.pc = StoreNext(ops[p].pc)]]
                /\ UNCHANGED <<error, isLoading>>
     \/ /\ Catch(p, Rejected(ops[p], "set"), FailedToStore)
        /\ UNCHANGED store
  /\ UNCHANGED <<mounted, recon>>
  /\ UNCHANGED nav

\* One setItemAsync of storeAuthData; after the third, setUser(data.user)
\* and setError(null); a rejected write throws FailedToStore.
storeAuthData(p) ==
  /\ ops[p].pc \in {"sto1", "sto2", "sto3"}
  /\ \/ /\ store' = [store EXCEPT ![StoreKey(ops[p].pc)] = StoreValue(ops[p].pc, ops[p].data)]
        /\ IF ops[p].pc = "sto3"
           THEN /\ user' = ops[p].data.user
                /\ error' = NoError
                /\ AfterStore(p, Called(ops[p], "set"))
           ELSE /\ ops' = [ops EXCEPT ![p] =
                             [Called(@, "set") EXCEPT !.pc = StoreNext(ops[p].pc)]]
                /\ UNCHANGED <<user, error, isLoading>>
     \/ /\ Catch(p, Rejected(ops[p], "set"), FailedToStore)
        /\ UNCHANGED store
  /\ UNCHANGED <<mounted, recon>>
  /\ UNCHANGED nav

\* The body r of an AuthResponse is handed to storeAuthData, or refused.
\* fallback is the operation's own message for a body without one.
HandleAuthResponse(p, r, fallback) ==
  IF r.success /\ r.data.present
  THEN IF r.data.token = Null
       THEN Catch(p, [ops[p] EXCEPT !.tokenless = TRUE], InvalidAuthData)
       ELSE /\ ops' = [ops EXCEPT ![p].data = r.data, ![p].pc = "sto1"]
            /\ UNCHANGED <<user, error, isLoading>>
  ELSE Catch(p, ops[p], IF r.message # "" THEN r.message ELSE fallback)

\* -------------------------------------------------- controller operations
CanStart(p) == mounted /\ Settled(p)

\* login without setError(null) at entry.
login_keepsError(p) ==
  /\ CanStart(p)
  /\ isLoading' = TRUE
  /\ ops' = [ops EXCEPT ![p] = Following(@, NewOp("login", "send"))]
  /\ recon' = NoRecon
  /\ UNCHANGED <<user, error, store, mounted>>
  /\ UNCHANGED nav

login(p) ==
  /\ CanStart(p)
  /\ isLoading' = TRUE
  /\ error' = NoError
  /\ ops' = [ops EXCEPT ![p] = Following(@, NewOp("login", "send"))]
  /\ recon' = NoRecon
  /\ UNCHANGED <<user, store, mounted>>
  /\ UNCHANGED nav

register(p) ==
  /\ CanStart(p)
  /\ isLoading' = TRUE
  /\ error' = NoError
  /\ ops' = [ops EXCEPT ![p] = Following(@, NewOp("register", "send"))]
  /\ recon' = NoRecon
  /\ UNCHANGED <<user, store, mounted>>
  /\ UNCHANGED nav

\* authRecv purging the Store when the request fails.
authRecv_purgesOnFailure(p) ==
  /\ ops[p].kind \in {"login", "register"}
  /\ Answered(p)
  /\ \/ /\ \E r \in Responses(p, AuthResponses) :
             HandleAuthResponse(p, r, IF ops[p].kind = "login" THEN LoginFailed
                                                                ELSE RegistrationFailed)
        /\ UNCHANGED store
     \/ /\ \E e \in Failures(p) : RemoteFailure(p, e)
        /\ store' = [k \in Keys |-> Null]
  /\ UNCHANGED <<mounted, recon>>
  /\ UNCHANGED nav

\* const authResponse = await authService.login / register (...)
authRecv(p) ==
  /\ ops[p].kind \in {"login", "register"}
  /\ Answered(p)
  /\ \/ \E r \in Responses(p, AuthResponses) :
          HandleAuthResponse(p, r, IF ops[p].kind = "login" THEN LoginFailed
                                                             ELSE RegistrationFailed)
     \/ \E e \in Failures(p) : RemoteFailure(p, e)
  /\ UNCHANGED <<store, mounted, recon>>
  /\ UNCHANGED nav

logout(p) ==
  /\ CanStart(p)
  /\ isLoading' = TRUE
  /\ ops' = [ops EXCEPT ![p] = Following(@, NewOp("logout", "send"))]
  /\ recon' = NoRecon
  /\ UNCHANGED <<user, error, store, mounted>>
  /\ UNCHANGED nav

\* await authService.logout(): a failure is logged, then clearAuthData.
logoutRecv(p) ==
  /\ ops[p].kind = "logout"
  /\ Answered(p)
  /\ \/ \E r \in Responses(p, ApiResponses) :
          ops' = [ops EXCEPT ![p] = CallClear(@, "finally", NoError)]
     \/ \E e \in Failures(p) :
          ops' = [ops EXCEPT ![p] = CallClear(@, "finally", serviceError(e))]
  /\ UNCHANGED <<user, isLoading, error, store, mounted, recon>>
  /\ UNCHANGED nav

resetPassword(p) ==
  /\ CanStart(p)
  /\ isLoading' = TRUE
  /\ error' = NoError
  /\ ops' = [ops EXCEPT ![p] = Following(@, NewOp("resetPassword", "send"))]
  /\ recon' = NoRecon
  /\ UNCHANGED <<user, store, mounted>>
  /\ UNCHANGED nav

\* resetRecv resetting the user when the request has succeeded.
resetRecv_dropsUser(p) ==
  /\ ops[p].kind = "resetPassword"
  /\ Answered(p)
  /\ \/ \E r \in Responses(p, ApiResponses) :
          IF r.success
          THEN /\ isLoading' = FALSE
               /\ user' = Null
               /\ ops' = [ops EXCEPT ![p] = Settle(@, "resolved", NoError)]
               /\ UNCHANGED error
          ELSE Catch(p, ops[p], IF r.message # "" THEN r.message ELSE ResetFailed)
     \/ \E e \in Failures(p) : RemoteFailure(p, e)
  /\ UNCHANGED <<store, mounted, recon>>
  /\ UNCHANGED nav

\* const response = await authService.resetPassword({ email })
resetRecv(p) ==
  /\ ops[p].kind = "resetPassword"
  /\ Answered(p)
  /\ \/ \E r \in Responses(p, ApiResponses) :
          IF r.success
          THEN /\ isLoading' = FALSE
               /\ ops' = [ops EXCEPT ![p] = Settle(@, "resolved", NoError)]
               /\ UNCHANGED <<user, error>>
          ELSE Catch(p, ops[p], IF r.message # "" THEN r.message ELSE ResetFailed)
     \/ \E e \in Failures(p) : RemoteFailure(p, e)
  /\ UNCHANGED <<store, mounted, recon>>
  /\ UNCHANGED nav

\* refreshToken up to its first await: no flag is touched.
refreshToken(p) ==
  /\ CanStart(p)
  /\ ops' = [ops EXCEPT ![p] = Following(@, NewOp("refreshToken", "rt_get"))]
  /\ recon' = NoRecon
  /\ UNCHANGED <<user, isLoading, error, store, mounted>>
  /\ UNCHANGED nav

\* const storedRefreshToken = await SecureStore.getItemAsync(REFRESH_TOKEN_KEY)
rtGet(p) ==
  /\ ops[p].kind = "refreshToken"
  /\ ops[p].pc = "rt_get"
  /\ \/ IF store[REFRESH_TOKEN_KEY] = Null
        THEN ops' = [ops EXCEPT ![p] = CallClear(Called(@, "get"), "catch", NoRefreshToken)]
        ELSE ops' = [ops EXCEPT ![p] =
                       [Called(@, "get") EXCEPT !.token = store[REFRESH_TOKEN_KEY],
                                                !.pc = "send"]]
     \/ ops' = [ops EXCEPT ![p] = CallClear(Rejected(@, "get"), "catch", StoreError)]
  /\ UNCHANGED <<user, isLoading, error, store, mounted, recon>>
  /\ UNCHANGED nav

\* rtRecv repeating a request that failed, once.
rtRecv_retries(p) ==
  /\ ops[p].kind = "refreshToken"
  /\ Answered(p)
  /\ \/ \E r \in Responses(p, AuthResponses) : HandleAuthResponse(p, r, RefreshFailed)
     \/ \E e \in Failures(p) :
          IF ops[p].reqs < 2
          THEN /\ ops' = [ops EXCEPT ![p].pc = "send"]
               /\ UNCHANGED <<user, isLoading, error>>
          ELSE RemoteFailure(p, e)
  /\ UNCHANGED <<store, mounted, recon>>
  /\ UNCHANGED nav

\* const authResponse = await authService.refreshToken(storedRefreshToken)
rtRecv(p) ==
  /\ ops[p].kind = "refreshToken"
  /\ Answered(p)
  /\ \/ \E r \in Responses(p, AuthResponses) : HandleAuthResponse(p, r, RefreshFailed)
     \/ \E e \in Failures(p) : RemoteFailure(p, e)
  /\ UNCHANGED <<store, mounted, recon>>
  /\ UNCHANGED nav

\* clearError resetting the user as well.
clearError_dropsUser ==
  /\ mounted
  /\ error' = NoError
  /\ user' = Null
  /\ UNCHANGED <<isLoading, store, ops, mounted, recon>>
  /\ UNCHANGED nav

clearError ==
  /\ mounted
  /\ error' = NoError
  /\ UNCHANGED <<user, isLoading, store, ops, mounted, recon>>
  /\ UNCHANGED nav

Step(p) ==
  \/ checkAuthStatus(p)
  \/ casGetToken(p)
  \/ casGetUser(p)
  \/ requestInterceptor(p)
  \/ handleTokenExpiration(p)
  \/ casRecv(p)
  \/ casSetUser(p)
  \/ clearAuthData(p)
  \/ storeAuthData(p)
  \/ login(p)
  \/ register(p)
  \/ authRecv(p)
  \/ logout(p)
  \/ logoutRecv(p)
  \/ resetPassword(p)
  \/ resetRecv(p)
  \/ refreshToken(p)
  \/ rtGet(p)
  \/ rtRecv(p)

Next ==
  \/ Restart
  \/ clearError
  \/ \E p \in SerialProcs : Step(p)

Spec == Init /\ [][Next]_vars

\* Every Store call and every request eventually settles, and the mount
\* effect runs: the invocation in slot p takes its next step.
Progress(p) ==
  \/ checkAuthStatus(p)
  \/ casGetToken(p)
  \/ casGetUser(p)
  \/ requestInterceptor(p)
  \/ handleTokenExpiration(p)
  \/ casRecv(p)
  \/ casSetUser(p)
  \/ clearAuthData(p)
  \/ storeAuthData(p)
  \/ authRecv(p)
  \/ logoutRecv(p)
  \/ resetRecv(p)
  \/ rtGet(p)
  \/ rtRecv(p)

\* The steps that follow startup and the operations of the public forms.
FormProgress(p) ==
  \/ checkAuthStatus(p)
  \/ casGetToken(p)
  \/ casGetUser(p)
  \/ requestInterceptor(p)
  \/ handleTokenExpiration(p)
  \/ casRecv(p)
  \/ casSetUser(p)
  \/ clearAuthData(p)
  \/ storeAuthData(p)
  \/ authRecv(p)
  \/ resetRecv(p)

\* The steps that follow startup, logout, login, register and refreshToken.
RaceProgress(p) ==
  \/ casGetToken(p)
  \/ casGetUser(p)
  \/ requestInterceptor(p)
  \/ handleTokenExpiration(p)
  \/ casRecv(p)
  \/ casSetUser(p)
  \/ clearAuthData(p)
  \/ storeAuthData(p)
  \/ authRecv(p)
  \/ logoutRecv(p)
  \/ rtGet(p)
  \/ rtRecv(p)

\* One run of the app, from its launch on any Store.
LiveNext ==
  \/ clearError
  \/ \E p \in SerialProcs : Step(p)

LiveSpec ==
  Init /\ [][LiveNext]_vars /\ \A p \in SerialProcs : WF_vars(Progress(p))

\* After startup, one logout and one login, register or refreshToken of
\* the same run, invoked by callers that do not wait for each other:
\* nothing in the controller keeps the second from starting while the
\* first is in flight.
Fresh(p) == ops[p].kind \in {"none", "checkAuthStatus"}
StartupDone == mounted /\ (Fresh(1) => Settled(1))
RaceNext ==
  \/ StartupDone /\ Fresh(1) /\ logout(1)
  \/ StartupDone /\ Fresh(2) /\ login(2)
  \/ StartupDone /\ Fresh(2) /\ register(2)
  \/ StartupDone /\ Fresh(2) /\ refreshToken(2)
  \/ checkAuthStatus(1)
  \/ \E p \in Procs : RaceProgress(p)

RaceSpec == Init /\ [][RaceNext]_vars

\* --------------------------------------------------- Routing Guard
\* AuthGuard's effect redirecting without looking at isLoading.
AuthGuard_ignoresLoading ==
  /\ ~guard.ran \/ guard.loading # isLoading \/ guard.auth # isAuthenticated
  /\ LET target == IF isAuthenticated THEN "tabs" ELSE "login" IN
       /\ guard' = [ran |-> TRUE, loading |-> isLoading,
                    auth |-> isAuthenticated, redirect |-> target]
       /\ route' = target
       /\ isSubmitting' = IF isLoading \/ target # route THEN FALSE ELSE isSubmitting
  /\ UNCHANGED <<user, isLoading, error, store, ops, mounted, recon>>

\* useEffect(..., [isLoading, isAuthenticated, router]): the effect runs
\* after the first render and after every render in which a dependency
\* differs from the last run; it redirects unless isLoading. In that
\* render AuthLayout returns null while isLoading, and a redirect replaces
\* the screen: the form screen is unmounted and its state is lost.
AuthGuard ==
  /\ ~guard.ran \/ guard.loading # isLoading \/ guard.auth # isAuthenticated
  /\ LET target == IF isLoading THEN "none"
                   ELSE IF isAuthenticated THEN "tabs" ELSE "login" IN
       /\ guard' = [ran |-> TRUE, loading |-> isLoading,
                    auth |-> isAuthenticated, redirect |-> target]
       /\ route' = IF target = "none" THEN route ELSE target
       /\ isSubmitting' = IF isLoading \/ target # route THEN FALSE ELSE isSubmitting
  /\ UNCHANGED <<user, isLoading, error, store, ops, mounted, recon>>

\* The committed render shows the current state and its effects have run:
\* event handlers of components run on such a render.
UIReady ==
  /\ guard.ran
  /\ guard.loading = isLoading
  /\ guard.auth = isAuthenticated
\* AuthLayout rendering its screens while isLoading as well.
ScreenShown_whileLoading(r) == UIReady /\ route = r

\* The screen of route r of the (auth) group is shown: AuthLayout renders
\* nothing while isLoading.
ScreenShown(r) == UIReady /\ ~isLoading /\ route = r
\* The buttons of the shown screen are enabled: disabled={isLoading ||
\* isSubmitting}.
Enabled(r) == ScreenShown(r) /\ ~isSubmitting

navigateToRegister ==
  /\ Enabled("login") \/ Enabled("forgot-password")
  /\ route' = "register"
  /\ UNCHANGED <<user, isLoading, error, store, ops, mounted, recon, guard, isSubmitting>>

navigateToForgotPassword ==
  /\ Enabled("login")
  /\ route' = "forgot-password"
  /\ UNCHANGED <<user, isLoading, error, store, ops, mounted, recon, guard, isSubmitting>>

navigateToLogin ==
  /\ Enabled("forgot-password")
  /\ route' = "login"
  /\ UNCHANGED <<user, isLoading, error, store, ops, mounted, recon, guard, isSubmitting>>

FormKinds == {"login", "register", "resetPassword"}

\* A submit handler up to the first await of the operation it calls:
\* setIsSubmitting(true), clearError(), then login, register or
\* resetPassword, which set isLoading and clear error before their request.
\* The promises of the invocations that settled before are dropped.
Submit(p, kind) ==
  /\ CanStart(p)
  /\ isSubmitting' = TRUE
  /\ isLoading' = TRUE
  /\ error' = NoError
  /\ ops' = [q \in Procs |->
               IF q = p THEN Following(ops[p], NewOp(kind, "send"))
               ELSE IF Settled(q) THEN IdleOp ELSE ops[q]]
  /\ recon' = NoRecon
  /\ UNCHANGED <<user, store, mounted, guard, route>>

handleLogin(p) == Enabled("login") /\ Submit(p, "login")
handleRegister(p) == Enabled("register") /\ Submit(p, "register")
handleResetPassword(p) == Enabled("forgot-password") /\ Submit(p, "resetPassword")

\* finally { setIsSubmitting(false) } of a submit handler whose screen is
\* still mounted.
submitFinally ==
  /\ isSubmitting
  /\ \A p \in Procs : ~(InFlight(p) /\ ops[p].kind \in FormKinds)
  /\ isSubmitting' = FALSE
  /\ UNCHANGED <<user, isLoading, error, store, ops, mounted, recon, guard, route>>

\* Components of the protected group sign the user out, and refresh the
\* session.
signOut(p) == UIReady /\ route = "tabs" /\ logout(p)
sessionRefresh(p) == UIReady /\ route = "tabs" /\ refreshToken(p)

\* One run of the app with its screens and the Routing Guard.
NavNext ==
  \/ AuthGuard
  \/ navigateToRegister
  \/ navigateToForgotPassword
  \/ navigateToLogin
  \/ submitFinally
  \/ \E p \in SerialProcs :
       \/ handleLogin(p)
       \/ handleRegister(p)
       \/ handleResetPassword(p)
       \/ signOut(p)
       \/ sessionRefresh(p)
       \/ Progress(p)

NavSpec == Init /\ [][NavNext]_vars
\* Every awaited call settles and every render is followed by its effects.
NavLiveSpec ==
  /\ NavSpec
  /\ WF_vars(AuthGuard)
  /\ WF_vars(submitFinally)
  /\ \A p \in SerialProcs : WF_vars(Progress(p))

\* The public screens alone, their handlers free to use any slot: nothing
\* in the controller keeps two operations apart.
FormsNext ==
  \/ AuthGuard
  \/ navigateToRegister
  \/ navigateToForgotPassword
  \/ navigateToLogin
  \/ submitFinally
  \/ \E p \in Procs :
       \/ handleLogin(p)
       \/ handleRegister(p)
       \/ handleResetPassword(p)
       \/ FormProgress(p)

FormsSpec == Init /\ [][FormsNext]_vars

\* ------------------------------------------------------------- claims
StoreEmpty == \A k \in Keys : store[k] = Null
Done(p, kind) == ops[p].kind = kind /\ ops[p].pc = "done"
\* The step on which the invocation in slot p settles.
Completes(p) == InFlight(p) /\ ops'[p].pc = "done"

\* C1: when logout() has completed, whatever the prior session and Store
\* and whatever the outcome of the remote logout call, user is null and the
\* three Store keys are absent (a key whose delete the Store rejected can
\* only be absent if it was absent before).
C1_LogoutPurges ==
  \A p \in Procs :
    Done(p, "logout")
    => /\ user = Null
       /\ "del" \notin ops[p].faults => StoreEmpty

\* C2: a refreshToken() that fails, for whatever reason, ends with user
\* null, the three Store keys absent (as far as the Store accepts the
\* deletes), error set to the failure message and that error rethrown; with
\* no refresh token stored the message is NoRefreshToken.
C2_RefreshFailureInvalidates ==
  [][\A p \in Procs :
       (Completes(p) /\ ops'[p].kind = "refreshToken" /\ ops'[p].outcome = "rejected")
       => /\ user' = Null
          /\ "del" \notin ops'[p].faults => \A k \in Keys : store'[k] = Null
          /\ ops'[p].thrown # NoError
          /\ error' = ops'[p].thrown
          /\ (ops'[p].preStore[REFRESH_TOKEN_KEY] = Null /\ "get" \notin ops'[p].faults
              => ops'[p].thrown = NoRefreshToken)]_vars

\* C3: with every operation completed, isAuthenticated is true exactly when
\* user is non-null and the Store holds an access token: no completed
\* operation leaves user non-null with the access-token key absent.
C3_AtomicVisibleSession ==
  (mounted /\ \A p \in Procs : Settled(p))
  => (isAuthenticated <=> (user # Null /\ store[TOKEN_KEY] # Null))

\* The remote answered getCurrentUser the same way in two runs: the same
\* answer in both, or one of them did not ask.
SameAnswer(a, b) == a.kind = "none" \/ b.kind = "none" \/ a = b

\* The second of two consecutive startup reconciliations has completed, the
\* remote having answered getCurrentUser the same way in both, and the
\* Store having treated every kind of call made in both runs the same way
\* in both.
SecondRunDone ==
  /\ Done(1, "checkAuthStatus")
  /\ recon.consecutive
  /\ SameAnswer(recon.answer, recon.prev.answer)
  /\ \A c \in ops[1].calls \cap recon.prev.calls :
       c \in ops[1].faults <=> c \in recon.prev.faults

\* C4: startup reconciliation run twice in a row, with nothing in between
\* and the same answers, ends the second time with the user it ended with
\* the first time.
C4_ReconciliationIdempotent ==
  SecondRunDone => user = recon.prev.user

\* C5: clearError() sets error to null and leaves user, isLoading and the
\* three Store keys as they were.  A step that moves no invocation and is
\* no relaunch is a clearError.
C5_ClearErrorFrame ==
  [][(ops' = ops /\ mounted' = mounted)
     => (error' = NoError /\ user' = user /\ isLoading' = isLoading /\ store' = store)]_vars
\* clearError has acted after a failed operation: the operation is still
\* the last one completed, it was rejected, and error is null again.
C5_Witness ==
  \E p \in Procs :
    /\ ops[p].pc = "done" /\ ops[p].outcome = "rejected"
    /\ error = NoError /\ user # Null

\* The Store and the session hold exactly the bundle of the response that
\* the invocation in slot p handed to storeAuthData.
BundleStored(p) ==
  /\ store'[TOKEN_KEY] = ops'[p].data.token
  /\ store'[REFRESH_TOKEN_KEY] = ops'[p].data.refreshToken
  /\ store'[USER_KEY] = stringify(ops'[p].data.user)
  /\ Parses(store'[USER_KEY]) /\ parse(store'[USER_KEY]) = user'
  /\ user' = ops'[p].data.user
  /\ user' # Null
  /\ error' = NoError

\* C6 as claimed: a login or register answered with success=true and data
\* {user, token, refreshToken} ends with exactly that bundle in the Store,
\* user equal to the response's user, isAuthenticated true and error null.
C6_LoginStoresBundle ==
  [][\A p \in Procs :
       (Completes(p) /\ ops'[p].kind \in {"login", "register"} /\ ops'[p].data.present)
       => BundleStored(p)]_vars

\* C6 as amended: the same, for a login or register whose three Store
\* writes all succeed.
C6_LoginStoresBundleWhenWritten ==
  [][\A p \in Procs :
       (Completes(p) /\ ops'[p].kind \in {"login", "register"} /\ ops'[p].data.present
        /\ "set" \notin ops'[p].faults)
       => BundleStored(p)]_vars
\* A login has completed on a full bundle, replacing another user's.
C6_Witness ==
  \E p \in Procs :
    /\ Done(p, "login") /\ ops[p].data.present /\ "set" \notin ops[p].faults
    /\ ops[p].preUser # Null /\ ops[p].preUser # user
    /\ store[TOKEN_KEY] # store[REFRESH_TOKEN_KEY]

\* The startup reconciliation in slot p has completed after getCurrentUser
\* answered with a user record.
FetchedUser(p) == Done(p, "checkAuthStatus") /\ ops[p].data.present
\* The session and the serialized-user key hold the fetched record, the
\* two token keys are as they were found.
FetchedUserKept(p) ==
  /\ user = ops[p].data.user
  /\ store[USER_KEY] = stringify(ops[p].data.user)
  /\ Parses(store[USER_KEY]) /\ parse(store[USER_KEY]) = user
  /\ store[TOKEN_KEY] = ops[p].preStore[TOKEN_KEY]
  /\ store[REFRESH_TOKEN_KEY] = ops[p].preStore[REFRESH_TOKEN_KEY]

C8_FailedValidationPurges ==
  \A p \in Procs :
    (Done(p, "checkAuthStatus") /\ recon.answer.kind = "fail")
    => /\ ops[p].outcome = "resolved"
       /\ user = Null
       /\ "del" \notin ops[p].faults => StoreEmpty

\* C9: a startup reconciliation that finds the Store empty completes with
\* user null and isLoading false, has sent no request and leaves the Store
\* empty.
C9_EmptyStoreStartup ==
  \A p \in Procs :
    (Done(p, "checkAuthStatus") /\ \A k \in Keys : ops[p].preStore[k] = Null)
    => /\ user = Null
       /\ ~isLoading
       /\ ops[p].reqs = 0
       /\ StoreEmpty
       /\ ops[p].outcome = "resolved"
\* A reconciliation has completed on an empty Store.
C9_Witness ==
  \E p \in Procs :
    /\ Done(p, "checkAuthStatus")
    /\ \A k \in Keys : ops[p].preStore[k] = Null
    /\ ops[p].calls = {"get"}

\* The step on which an operation of the kind enters, up to its first await.
Enters(p, kind) == Settled(p) /\ ops'[p].kind = kind /\ InFlight(p)'
\* The invocation in slot p has made no Store call and sent no request.
NoCallYet(p) == ops[p].calls = {} /\ ops[p].reqs = 0

\* C10 as claimed: login, register, logout, resetPassword and refreshToken
\* each set isLoading true and error null at entry, before the first
\* Store or remote call.
C10_EntrySetsFlags ==
  [][\A p \in Procs :
       \A kind \in {"login", "register", "logout", "resetPassword", "refreshToken"} :
         Enters(p, kind) => (isLoading' /\ error' = NoError /\ NoCallYet(p)')]_vars

\* C10 as amended: login, register and resetPassword set isLoading true
\* and error null at entry; logout sets isLoading true and leaves error as
\* it is; refreshToken leaves both as they are.
C10_EntrySetsFlagsPerOperation ==
  [][\A p \in Procs :
       /\ \A kind \in {"login", "register", "resetPassword"} :
            Enters(p, kind) => (isLoading' /\ error' = NoError /\ NoCallYet(p)')
       /\ Enters(p, "logout") => (isLoading' /\ error' = error /\ NoCallYet(p)')
       /\ Enters(p, "refreshToken")
            => (isLoading' = isLoading /\ error' = error /\ NoCallYet(p)')]_vars
\* A logout has entered with an error recorded, a login has entered.
C10_Witness ==
  \E p \in Procs :
    /\ ops[p].kind = "logout" /\ ops[p].pc = "send"
    /\ isLoading /\ error # NoError

\* C11: startup reconciliation and every controller operation eventually
\* settle, and on the step on which one settles isLoading is false, on the
\* success path and on every failure path.
C11_SettlesWithLoadingReleased ==
  /\ \A p \in SerialProcs : (~mounted \/ InFlight(p)) ~> (ops[p].pc = "done")
  /\ [][\A p \in Procs : Completes(p) => ~isLoading']_vars
\* Operations have settled through a rejected Store write and through a
\* rejected delete, with the loading flag released.
C11_Witness ==
  \E p \in Procs :
    /\ ops[p].pc = "done" /\ ~isLoading
    /\ ops[p].kind = "refreshToken"
    /\ {"set", "del"} \subseteq ops[p].faults

\* C12: every failing invocation of login, register, resetPassword or
\* refreshToken records the failure message in error and rethrows it: on
\* the step on which the call rejects, error is non-null and equals the
\* message of the rejected error.
FailingKinds == {"login", "register", "resetPassword", "refreshToken"}
C12_FailureRecordedAndRethrown ==
  [][\A p \in Procs :
       (Completes(p) /\ ops'[p].kind \in FailingKinds /\ ops'[p].outcome = "rejected")
       => /\ ops'[p].thrown # NoError
          /\ error' # NoError
          /\ error' = ops'[p].thrown]_vars
\* A login has been rejected because the Store refused a write, and a
\* refreshToken has been rejected after its purge.
C12_Witness ==
  \E p \in Procs :
    /\ ops[p].pc = "done" /\ ops[p].outcome = "rejected"
    /\ \/ ops[p].kind = "login" /\ "set" \in ops[p].faults
       \/ ops[p].kind = "refreshToken" /\ "del" \in ops[p].calls
    /\ error = ops[p].thrown

\* C13: a failed login, a failed register, and resetPassword with either
\* outcome end with user (and so isAuthenticated) equal to its value before
\* the call.
C13_FailureKeepsUser ==
  \A p \in Procs :
    (\/ ops[p].kind \in {"login", "register"} /\ ops[p].pc = "done"
                                              /\ ops[p].outcome = "rejected"
     \/ Done(p, "resetPassword"))
    => user = ops[p].preUser
\* A resetPassword has succeeded, or a login has failed after a write,
\* while a user was signed in.
C13_Witness ==
  \E p \in Procs :
    /\ ops[p].pc = "done" /\ ops[p].preUser # Null /\ user = ops[p].preUser
    /\ \/ ops[p].kind = "resetPassword" /\ ops[p].outcome = "resolved"
       \/ ops[p].kind = "login" /\ ops[p].outcome = "rejected" /\ "set" \in ops[p].calls

\* C14: when the remote rejects login or register with an explicit server
\* message (an HTTP error status whose body carries a message), the error
\* thrown to the caller and the message stored in error both equal that
\* message; likewise a connectivity failure and a timeout surface their
\* distinguished messages rather than the generic fallback.
DistinguishedMsgs == {ServerMsg, NetworkMsg, TimeoutMsg}
C14_RemoteMessageSurfaces ==
  [][\A p \in Procs :
       (/\ Completes(p)
        /\ ops'[p].kind \in {"login", "register"}
        /\ ops'[p].remote \in DistinguishedMsgs)
       => /\ ops'[p].thrown = ops'[p].remote
          /\ error' = ops'[p].remote]_vars

\* C15: logout() never rejects and never leaves an error recorded: for
\* every outcome of the remote logout call the promise resolves, and on
\* the step on which it resolves error is null.
C15_LogoutResolvesWithoutError ==
  [][\A p \in Procs :
       (Completes(p) /\ ops'[p].kind = "logout")
       => /\ ops'[p].outcome = "resolved"
          /\ error' = NoError]_vars

\* The Credential Bundle in the Store st is whole or absent.
AllPresent(st) == \A k \in Keys : st[k] # Null
AllAbsent(st) == \A k \in Keys : st[k] = Null
AllOrNone(st) == AllPresent(st) \/ AllAbsent(st)
StoreFaults == {"set", "del"}

\* C16: the three keys are all present or all absent after a completed
\* controller operation (or startup reconciliation) that started from an
\* empty Store.
C16_BundleAllOrNone ==
  \A p \in Procs :
    (ops[p].pc = "done" /\ AllAbsent(ops[p].preStore)) => AllOrNone(store)
\* C16 (amended): an operation that starts from a whole or absent bundle and
\* during which the Store rejects no write and no delete ends with the
\* bundle whole or absent; so does, from an empty Store, every sequence of
\* such operations.
C16_BundleAllOrNoneWhenWritten ==
  \A p \in Procs :
    (/\ ops[p].pc = "done"
     /\ AllOrNone(ops[p].preStore)
     /\ ops[p].faults \cap StoreFaults = {})
    => AllOrNone(store)
\* A login has filled an empty Store, and a logout has emptied a full one.
C16_Witness ==
  \E p \in Procs :
    /\ ops[p].faults = {}
    /\ \/ Done(p, "login") /\ AllAbsent(ops[p].preStore) /\ AllPresent(store)
       \/ Done(p, "logout") /\ AllPresent(ops[p].preStore) /\ AllAbsent(store)

\* C17: a partial Credential Bundle is reconciled by the next startup
\* check: when checkAuthStatus has completed on such a Store, the Store
\* holds all three keys or none, user is non-null only if all three are
\* present, and the check has not failed.
C17_PartialBundleReconciled ==
  \A p \in Procs :
    (Done(p, "checkAuthStatus") /\ ~AllOrNone(ops[p].preStore))
    => /\ AllOrNone(store)
       /\ user # Null => AllPresent(store)
       /\ ops[p].outcome = "resolved"

\* The invocation in slot p has, between its start and now, left a key
\* with a new value (Wrote) or without the value it had (Deleted).
Wrote(p) == \E k \in Keys : store[k] # Null /\ store[k] # ops[p].preStore[k]
Deleted(p) == \E k \in Keys : store[k] = Null /\ ops[p].preStore[k] # Null
\* The startup reconciliation o has failed: a rejected request, an
\* unparsable cached user or a rejected Store call.
CasFailed(o) ==
  \/ recon.answer.kind = "fail"
  \/ o.faults # {}
  \/ ~Parses(o.preStore[USER_KEY])
WritingKinds == {"login", "register", "refreshToken"}
StorePcs == {"sto1", "sto2", "sto3"}
ClearPcs == {"clr1", "clr2", "clr3"}

\* C18: the Store keys are written only by a successful login, register or
\* refreshToken and by startup reconciliation's re-persist of the fetched
\* user, and deleted only by logout, a failed refreshToken or a failed
\* startup reconciliation; resetPassword and a login or register rejected
\* by the remote leave all three keys unchanged.
C18_StoreChangesOnlyAlongLifecycle ==
  \A p \in Procs :
    ops[p].pc = "done"
    => /\ Wrote(p)
          => \/ ops[p].kind \in WritingKinds /\ ops[p].outcome = "resolved"
             \/ ops[p].kind = "checkAuthStatus" /\ ops[p].data.present
       /\ Deleted(p)
          => \/ ops[p].kind = "logout"
             \/ ops[p].kind = "refreshToken" /\ ops[p].outcome = "rejected"
             \/ ops[p].kind = "checkAuthStatus" /\ CasFailed(ops[p])
       /\ ops[p].kind = "resetPassword" => store = ops[p].preStore
       /\ (ops[p].kind \in {"login", "register"} /\ ~ops[p].data.present)
          => store = ops[p].preStore
\* C18 (amended): every step that writes a key belongs to the storeAuthData
\* of a login, register or refreshToken that the remote answered with a
\* storable bundle (whether or not the operation then succeeds), or is the
\* re-persist of the fetched user by startup reconciliation; every step
\* that deletes a key belongs to the clearAuthData of logout, of a failing
\* refreshToken or of a failed startup reconciliation; a step of no
\* operation (clearError) changes no key; and resetPassword and a login or
\* register the remote did not answer with a storable bundle complete with
\* the three keys as they were.
C18_StoreChangesOnlyAlongLifecycleSteps ==
  [][/\ \A k \in Keys :
          /\ (store'[k] # store[k] /\ store'[k] # Null)
             => \E p \in Procs :
                  /\ ops'[p] # ops[p]
                  /\ ops[p].data.present
                  /\ \/ ops[p].kind \in WritingKinds /\ ops[p].pc \in StorePcs
                     \/ /\ ops[p].kind = "checkAuthStatus"
                        /\ ops[p].pc = "cas_setUser"
                        /\ k = USER_KEY
                        /\ store'[k] = stringify(ops[p].data.user)
          /\ (store'[k] # store[k] /\ store'[k] = Null)
             => \E p \in Procs :
                  /\ ops'[p] # ops[p]
                  /\ ops[p].pc \in ClearPcs
                  /\ \/ ops[p].kind = "logout"
                     \/ ops[p].kind = "refreshToken" /\ ops[p].thrown # NoError
                     \/ ops[p].kind = "checkAuthStatus" /\ CasFailed(ops[p])
     /\ ops' = ops => store' = store
     /\ \A p \in Procs :
          (/\ Completes(p)
           /\ \/ ops'[p].kind = "resetPassword"
              \/ ops'[p].kind \in {"login", "register"} /\ ~ops'[p].data.present)
          => store' = ops'[p].preStore]_vars
\* A register rejected by the remote has completed on a full Store, which
\* is as it was.
C18_Witness ==
  \E p \in Procs :
    /\ Done(p, "register")
    /\ ops[p].remote # ""
    /\ AllPresent(store)
    /\ store = ops[p].preStore

\* C19: the Routing Guard never issues a redirect while isLoading is true;
\* each redirect it issues while isLoading is false goes to the tabs group
\* iff isAuthenticated is true at that moment, and otherwise to the login
\* route.
GuardRuns == guard'.ran /\ guard' # guard
C19_GuardRedirectsOnSettledState ==
  [][GuardRuns
     => /\ isLoading => (guard'.redirect = "none" /\ route' = route)
        /\ (~isLoading /\ isAuthenticated)
           => (guard'.redirect = "tabs" /\ route' = "tabs")
        /\ (~isLoading /\ ~isAuthenticated)
           => (guard'.redirect = "login" /\ route' = "login")]_vars
\* The guard has redirected to the tabs group the user signed in by a
\* successful login.
C19_Witness ==
  /\ guard.redirect = "tabs"
  /\ route = "tabs"
  /\ \E p \in Procs : Done(p, "login") /\ ops[p].outcome = "resolved"

\* C20: whenever an authenticated session ends, by a completed logout or
\* by a failed refreshToken, the Routing Guard eventually redirects to the
\* login route; and after a successful login or register it eventually
\* redirects to the tabs group. (The operation has completed and the last
\* run of the guard's effect has not issued that redirect: eventually a run
\* issues it.)
RedirectedTo(r) == guard.redirect = r /\ route = r
C20_SessionChangeRedirects ==
  \A p \in SerialProcs :
    /\ (Done(p, "logout") /\ ops[p].preUser # Null /\ guard.redirect # "login")
       ~> RedirectedTo("login")
    /\ (Done(p, "refreshToken") /\ ops[p].outcome = "rejected"
                                /\ ops[p].preUser # Null /\ guard.redirect # "login")
       ~> RedirectedTo("login")
    /\ (ops[p].kind \in {"login", "register"} /\ ops[p].pc = "done"
          /\ ops[p].outcome = "resolved" /\ guard.redirect # "tabs")
       ~> RedirectedTo("tabs")

\* C21: the bearer token is read through from the Store on every request:
\* a request carries Authorization: Bearer t exactly when the access-token
\* key holds t when the request is sent and the read is not rejected, and
\* no header otherwise; and no request sent after a completed purge
\* carries the token the purge was to delete.
Sends(p) == ops[p].pc = "send" /\ ops'[p].pc = "recv"
ReadThrough(p) ==
  /\ (ops'[p].tokenRead = "ok") => (ops'[p].auth = store[TOKEN_KEY])
  /\ (ops'[p].tokenRead = "rejected") => (ops'[p].auth = Null)
  /\ ops'[p].tokenRead \in {"ok", "rejected"}
StartsForm(p) == Settled(p) /\ ops'[p].pc = "send" /\ ops'[p].kind \in FormKinds
C22_FormsInvokeSerially ==
  [][\A p \in Procs :
       StartsForm(p)
       => /\ \A q \in Procs : Settled(q)
          /\ mounted
          /\ ~isLoading
          /\ ~isSubmitting]_vars
\* A register submitted from its form is in flight in the second slot,
\* nothing else being in flight.
C22_Witness ==
  /\ ops[2].kind = "register" /\ InFlight(2)
  /\ Settled(1)
  /\ mounted
  /\ isSubmitting

\* C23: a single invocation of login, register, resetPassword,
\* refreshToken, logout or startup reconciliation issues at most one remote
\* request: a request leaves only from an invocation that has issued none,
\* so none leaves after a request of the invocation has failed.
C23_NoSilentRetry ==
  [][\A p \in Procs :
       /\ ops'[p].reqs <= 1
       /\ Sends(p) => ops[p].reqs = 0 /\ ops[p].remote = "" /\ ops[p].thrown = NoError]_vars
\* A refreshToken has settled after its one request failed.
C23_Witness ==
  \E p \in Procs :
    /\ Done(p, "refreshToken")
    /\ ops[p].reqs = 1
    /\ ops[p].remote # ""
    /\ ops[p].outcome = "rejected"

\* C24: for every raw transport error the message the caller of the Remote
\* Auth Client receives is the normalized one: the server-supplied message
\* if present, else the server-supplied error code if present, else the
\* connectivity message for a network error, else the timeout message for
\* an aborted request, else the generic fallback.
Normalized(e) ==
  CASE e.respMessage # "" -> e.respMessage
    [] e.respMessage = "" /\ e.respError # "" -> e.respError
    [] e.respMessage = "" /\ e.respError = "" /\ e.code = "NETWORK_ERROR" -> NetworkMsg
    [] e.respMessage = "" /\ e.respError = "" /\ e.code = "ECONNABORTED" -> TimeoutMsg
    [] OTHER -> GenericMsg
\* The request of the invocation in slot p fails on this step.
RequestFails(p) == Answered(p) /\ ops[p].remote = "" /\ ops'[p].remote # ""
C24_NormalizedMessageReachesCaller ==
  [][\A p \in Procs : \A e \in RawErrors :
       (RequestFails(p) /\ ops'[p].remote = responseInterceptor(e))
       => /\ responseInterceptor(e) = Normalized(e)
          /\ ops'[p].thrown = Normalized(e)]_vars

\* C25: a 401 answer by itself changes neither user, isLoading, error nor
\* any Store key: the hook of the response interceptor only lets the
\* rejection follow, and a key is deleted only on a step of clearAuthData
\* in the controller operation that issued the request.
Expires(p) == ops[p].pc = "recv" /\ ops'[p].pc = "expired"
C25_HookIsAdvisory ==
  [][/\ \A p \in Procs :
          Expires(p)
          => /\ UNCHANGED <<user, isLoading, error, store>>
             /\ ops' = [ops EXCEPT ![p].pc = "expired"]
     /\ (\E k \in Keys : store[k] # Null /\ store'[k] = Null)
        => \E p \in Procs : ops[p].pc \in ClearPcs /\ ops'[p].pc # ops[p].pc]_vars
\* The 401 answer to startup's validation request has been received while
\* the cached user is set and the bundle is stored.
C25_Witness ==
  \E p \in Procs :
    /\ ops[p].kind = "checkAuthStatus"
    /\ ops[p].pc = "expired"
    /\ user # Null
    /\ AllPresent(store)

\* C26: once a logout() and a login, register or refreshToken that was in
\* flight at the same time have both settled, no Store call of either
\* having been rejected, it is not the case that user is non-null while
\* the access-token key is absent, nor that the Store holds only some of
\* the three keys.
RaceKinds == {"login", "register", "refreshToken"}
C26_ConsistentAfterRace ==
  (/\ Done(1, "logout")
   /\ ops[2].pc = "done" /\ ops[2].kind \in RaceKinds
   /\ ops[1].faults = {} /\ ops[2].faults = {})
  => /\ ~(user # Null /\ store[TOKEN_KEY] = Null)
     /\ AllOrNone(store)

\* C27: after startup, a failed login or register, or a resetPassword with
\* either outcome, invoked from the register or forgot-password screen
\* while nobody is signed in causes no navigation: no run of the Routing
\* Guard's effect during or after that operation issues a redirect, and the
\* route stays the one of that screen.
PublicForms == {"register", "forgot-password"}
LeavesAuthUnchanged(p) ==
  /\ ops[p].kind \in FormKinds
  /\ ops[p].preUser = Null
  /\ user = Null
  /\ ops[p].pc = "done" => \/ ops[p].kind = "resetPassword"
                          \/ ops[p].outcome = "rejected"
C27_NoRedirectWithoutAuthChange ==
  [][\A p \in Procs :
       (LeavesAuthUnchanged(p) /\ route \in PublicForms /\ GuardRuns)
       => /\ guard'.redirect = "none"
          /\ route' = route]_vars

\* C28: when the Store holds an access token and a serialized user that
\* cannot be parsed, startup reconciliation never sets user from it and
\* issues no remote request, and it ends, without throwing, with the three
\* Store keys absent, user null, error null and isLoading false.
UnparsableCache(p) ==
  /\ ops[p].kind = "checkAuthStatus"
  /\ ops[p].preStore[TOKEN_KEY] # Null
  /\ ops[p].preStore[USER_KEY] = Corrupt
C28_UnparsableCachePurged ==
  \A p \in Procs :
    UnparsableCache(p)
    => /\ user = Null
       /\ ops[p].reqs = 0
       /\ ops[p].pc = "done"
          => /\ StoreEmpty
             /\ error = NoError
             /\ ~isLoading
             /\ ops[p].outcome = "resolved"

\* C29: in login, register and refreshToken user is set only on the step
\* on which the third of the three Store writes (access token, refresh
\* token, serialized user) has succeeded; when a write is rejected, login
\* and register leave user as it was and fail with "Failed to store
\* authentication data"; a success response whose data has no token makes
\* no write and fails with "Invalid authentication data received".
StoredBundle(st, d) ==
  /\ st[TOKEN_KEY] = d.token
  /\ st[REFRESH_TOKEN_KEY] = d.refreshToken
  /\ st[USER_KEY] = stringify(d.user)
CachedUser(p) == parse(ops[p].preStore[USER_KEY])
C30_UnvalidatedCacheStays ==
  \A p \in Procs :
    ops[p].kind = "checkAuthStatus"
    => /\ ops[p].pc \in {"send", "recv", "expired"}
          => /\ user = CachedUser(p) /\ user # Null
             /\ store = ops[p].preStore
             /\ ops[p].pc = "send" => ops[p].reqs = 0
       /\ (ops[p].pc = "done" /\ recon.answer.kind = "nodata")
          => /\ user = CachedUser(p) /\ user # Null
             /\ store = ops[p].preStore
             /\ ops[p].outcome = "resolved"
             /\ ~isLoading
\* Startup has ended on an answer without data, the cached user signed in.
C30_Witness ==
  \E p \in Procs :
    /\ Done(p, "checkAuthStatus")
    /\ recon.answer.kind = "nodata"
    /\ user # Null
    /\ ops[p].reqs = 1

====
